---- MODULE Spec2Model ----
(***************************************************************************)
(* Model of the bfi interpreter (src/.history/src/main_20240412175723.rs): *)
(* main, Lexer::lex / Lexer::identify, Interpreter::from,                  *)
(* Interpreter::load_jump_table and one action per arm of the dispatch     *)
(* loop of Interpreter::interpret.                                         *)
(*                                                                         *)
(* Indices are 0-based as in the source (program_cursor, mem_cursor, the   *)
(* keys and values of jmp_table); the TLA+ sequences holding tokens and    *)
(* mem are 1-based, so the code's tokens[i] is tokens[i + 1] here.          *)
(*                                                                         *)
(* usize values: mem_cursor is the only usize that can wrap.  A value n of *)
(* the model with n < 0 stands for the usize 2^64 + n (two's complement),  *)
(* so that usize::MAX is -1.  Every comparison and index on mem_cursor goes *)
(* through UsizeGe / InBounds, which read a negative n as that huge value. *)
(***************************************************************************)
EXTENDS Integers, Sequences, FiniteSets, TLC

VARIABLES
    alen,            \* env::args().len()
    build,           \* "debug" (overflow checks on) or "release" (wrapping)
    source,          \* the text of the file named by the argument
    stdin,           \* the bytes not yet read from standard input
    status,          \* "start", "constructed", "running", "done", "panicked"
    panic,           \* the panic that ended the run: [kind, pos]
    tokens,          \* Interpreter.tokens
    program_cursor,  \* Interpreter.program_cursor
    mem_cursor,      \* Interpreter.mem_cursor
    mem,             \* Interpreter.mem
    jmp_table,       \* Interpreter.jmp_table
    stdout_buf,      \* bytes held by the line-buffered stdout handle
    out,             \* bytes that have reached the output stream
    stderr           \* lines written to standard error

vars == <<alen, build, source, stdin, status, panic, tokens, program_cursor,
          mem_cursor, mem, jmp_table, stdout_buf, out, stderr>>

----------------------------------------------------------------------------
(* Bounds of the model. *)

MaxSrc == 4
MaxIn == 1
MaxTape == 5
MaxOut == 4
MaxArgs == 3

(* The width of a tape cell (u8). *)
CellMod == 256

(* The eight operator characters and one character that is none of them. *)
Operators == {"<", ">", "+", "-", ".", ",", "[", "]"}
Alphabet == Operators \cup {"x"}

(* Bytes standard input may deliver: zero, ASCII, newline, non-ASCII. *)
InputBytes == {0, 10, 65, 200}

RECURSIVE SeqsUpTo(_, _)
SeqsUpTo(S, n) ==
    IF n = 0 THEN {<<>>}
    ELSE LET shorter == SeqsUpTo(S, n - 1)
         IN  shorter \cup {Append(s, x) : s \in {t \in shorter : Len(t) = n - 1}, x \in S}

(* Longer programs, beyond MaxSrc: nested loops, unbalanced brackets, cat. *)
SamplePrograms ==
    { <<"+", "[", "[", "-", "]", "]">>,
      <<"[", "[", "[", "]">>,
      <<"[", "]", "]", "[">>,
      <<",", "[", ".", ",", "]">>,
      <<"+", "+", "[", ">", "+", "<", "-", "]", ">", ".">>,
      <<"-", "[", ">", "+", "<", "-", "]">>,
      <<"<", "<", "<", "<", "<">> }

Sources == SeqsUpTo(Alphabet, MaxSrc) \cup SamplePrograms
Streams == SeqsUpTo(InputBytes, MaxIn)

----------------------------------------------------------------------------
(* Token and Lexer. *)

Token(kind, pos) == [kind |-> kind, pos |-> pos]

NoKind == "None"

identify_NoInput(c) ==
    CASE c = "<" -> "MoveLeft"
      [] c = ">" -> "MoveRight"
      [] c = "+" -> "Increment"
      [] c = "-" -> "Decrement"
      [] c = "." -> "Print"
      [] c = "[" -> "Jmp"
      [] c = "]" -> "Pmj"
      [] OTHER -> NoKind

identify(c) ==
    CASE c = "<" -> "MoveLeft"
      [] c = ">" -> "MoveRight"
      [] c = "+" -> "Increment"
      [] c = "-" -> "Decrement"
      [] c = "." -> "Print"
      [] c = "," -> "Input"
      [] c = "[" -> "Jmp"
      [] c = "]" -> "Pmj"
      [] OTHER -> NoKind

RECURSIVE LexLoop(_, _, _)
LexLoop(buffer, pos, toks) ==
    IF buffer = <<>> THEN toks
    ELSE LET t == identify(Head(buffer))
         IN  LexLoop(Tail(buffer), pos + 1,
                     IF t # NoKind THEN Append(toks, Token(t, pos)) ELSE toks)

lex_FromZero(buffer) == LexLoop(buffer, 0, <<>>)

(* Line 39: pos starts at 1. *)
lex(buffer) == LexLoop(buffer, 1, <<>>)

----------------------------------------------------------------------------
(* usize arithmetic on mem_cursor. *)

UsizeGe(n, len) == n < 0 \/ n >= len
InBounds(n, len) == ~UsizeGe(n, len)

WrappingAdd_Saturating(v) == IF v = CellMod - 1 THEN v ELSE v + 1

WrappingAdd(v) == (v + 1) % CellMod
WrappingSub(v) == (v + CellMod - 1) % CellMod

(* `x as char` formatted by print!: the UTF-8 encoding of U+0000..U+00FF. *)
AsCharBytes(v) ==
    IF v < 128 THEN <<v>>
    ELSE <<192 + (v \div 64), 128 + (v % 64)>>

----------------------------------------------------------------------------
(* Interpreter::load_jump_table. *)

NoPanic == [kind |-> "none", pos |-> 0]
Panic(kind, pos) == [kind |-> kind, pos |-> pos]

EmptyTable == [k \in {} |-> 0]
Insert(table, k, v) == [x \in (DOMAIN table) \cup {k} |-> IF x = k THEN v ELSE table[x]]

PopInsert_OneWay(table, index, i) == Insert(table, index, i)

(* Lines 159-160. *)
PopInsert(table, index, i) == Insert(Insert(table, index, i), i, index)

StackTop_Bottom(stack) == stack[1]

(* Line 157: the index stack.pop() returns. *)
StackTop(stack) == stack[Len(stack)]

RECURSIVE ScanLoop(_, _, _, _, _)

PopNone_Skip(toks, i, stack, check, table) ==
    ScanLoop(toks, i + 1, stack, check + 1, table)

(* Line 162: stack.pop() is None. *)
PopNone(toks, i, stack, check, table) ==
    [table |-> table, check |-> check, err |-> "unreachable"]

ScanLoop(toks, i, stack, check, table) ==
    IF i >= Len(toks) THEN [table |-> table, check |-> check, err |-> "none"]
    ELSE LET v == toks[i + 1]
         IN  CASE v.kind = "Jmp" ->
                    ScanLoop(toks, i + 1, Append(stack, i), check + 1, table)
               [] v.kind = "Pmj" ->
                    IF stack = <<>> THEN PopNone(toks, i, stack, check, table)
                    ELSE ScanLoop(toks, i + 1, SubSeq(stack, 1, Len(stack) - 1),
                                  check + 1, PopInsert(table, StackTop(stack), i))
               [] OTHER -> ScanLoop(toks, i + 1, stack, check, table)

CheckFails(check) == check % 2 # 0

load_jump_table(toks, table) ==
    LET r == ScanLoop(toks, 0, <<>>, 0, table)
    IN  IF r.err # "none" THEN [table |-> r.table, err |-> r.err]
        ELSE IF CheckFails(r.check) THEN [table |-> r.table, err |-> "No matching ]"]
        ELSE [table |-> r.table, err |-> "none"]

----------------------------------------------------------------------------
(* The state before main runs.  Standard input is only ever read by an     *)
(* input token, so a source without "," is run on the empty stream alone;   *)
(* without the file argument nothing is read and nothing can overflow.      *)

Init ==
    /\ alen \in 1..MaxArgs
    /\ build \in {"debug", "release"}
    /\ IF alen = 2
       THEN /\ source \in Sources
            /\ stdin \in (IF \E i \in DOMAIN source : source[i] = ","
                          THEN Streams ELSE {<<>>})
       ELSE source = <<>> /\ stdin = <<>> /\ build = "debug"
    /\ status = "start"
    /\ panic = NoPanic
    /\ tokens = <<>>
    /\ program_cursor = 0
    /\ mem_cursor = 0
    /\ mem = <<>>
    /\ jmp_table = EmptyTable
    /\ stdout_buf = <<>>
    /\ out = <<>>
    /\ stderr = <<>>

----------------------------------------------------------------------------
(* main. *)

Frame_Interp == UNCHANGED <<tokens, program_cursor, mem_cursor, mem, jmp_table>>
Frame_Env == UNCHANGED <<alen, build, source>>

(* One argument (the program name alone): launch_repl, an empty function. *)
MainRepl ==
    /\ status = "start"
    /\ alen = 1
    /\ status' = "done"
    /\ Frame_Interp /\ Frame_Env
    /\ UNCHANGED <<stdin, panic, stdout_buf, out, stderr>>

MainRun_EmptyTape ==
    /\ status = "start"
    /\ alen = 2
    /\ tokens' = lex(source)
    /\ program_cursor' = 0
    /\ mem_cursor' = 0
    /\ mem' = <<>>
    /\ jmp_table' = EmptyTable
    /\ status' = "constructed"
    /\ Frame_Env
    /\ UNCHANGED <<stdin, panic, stdout_buf, out, stderr>>

(* Two arguments: read the file, Lexer::from, Interpreter::from. *)
MainRun ==
    /\ status = "start"
    /\ alen = 2
    /\ tokens' = lex(source)
    /\ program_cursor' = 0
    /\ mem_cursor' = 0
    /\ mem' = <<0>>
    /\ jmp_table' = EmptyTable
    /\ status' = "constructed"
    /\ Frame_Env
    /\ UNCHANGED <<stdin, panic, stdout_buf, out, stderr>>

(* Any other argument count: a message on standard error, then main returns. *)
MainTooMany ==
    /\ status = "start"
    /\ alen \notin {1, 2}
    /\ stderr' = Append(stderr, "Too many arguments")
    /\ status' = "done"
    /\ Frame_Interp /\ Frame_Env
    /\ UNCHANGED <<stdin, panic, stdout_buf, out>>

----------------------------------------------------------------------------
(* Interpreter::interpret: the call of load_jump_table, then the loop. *)

LoadJumpTable ==
    /\ status = "constructed"
    /\ LET r == load_jump_table(tokens, jmp_table)
       IN  /\ jmp_table' = r.table
           /\ IF r.err # "none"
              THEN status' = "panicked" /\ panic' = Panic(r.err, 0)
              ELSE status' = "running" /\ UNCHANGED panic
    /\ Frame_Env
    /\ UNCHANGED <<stdin, tokens, program_cursor, mem_cursor, mem, stdout_buf, out, stderr>>

Tok == tokens[program_cursor + 1]
Dispatch(kind) ==
    /\ status = "running"
    /\ program_cursor < Len(tokens)
    /\ Tok.kind = kind

CellOk == InBounds(mem_cursor, Len(mem))
Cell == mem[mem_cursor + 1]
Written == out \o stdout_buf

(* A panic inside the loop: the run ends where it is. *)
Die(kind, pos) ==
    /\ status' = "panicked"
    /\ panic' = Panic(kind, pos)
    /\ UNCHANGED program_cursor

(* Line 144. *)
Advance(pc) ==
    /\ program_cursor' = pc + 1
    /\ UNCHANGED <<status, panic>>

(* Standard output is line buffered: a newline sends the buffer out. *)
StdoutWrite(bytes) ==
    IF 10 \in {bytes[i] : i \in DOMAIN bytes}
    THEN out' = out \o stdout_buf \o bytes /\ stdout_buf' = <<>>
    ELSE stdout_buf' = stdout_buf \o bytes /\ UNCHANGED out

StdoutFlush_Nothing == UNCHANGED <<out, stdout_buf>>

(* Line 104, and the flush the runtime makes when main returns. *)
StdoutFlush == out' = out \o stdout_buf /\ stdout_buf' = <<>>

StepPrint ==
    /\ Dispatch("Print")
    /\ IF CellOk
       THEN /\ Len(Written) < MaxOut
            /\ StdoutWrite(AsCharBytes(Cell))
            /\ Advance(program_cursor)
       ELSE /\ Die("index out of bounds", 0)
            /\ UNCHANGED <<stdout_buf, out>>
    /\ Frame_Env
    /\ UNCHANGED <<stdin, tokens, mem_cursor, mem, jmp_table, stderr>>

StepInput_EofIsZero ==
    /\ Dispatch("Input")
    /\ StdoutFlush
    /\ stdin' = IF stdin = <<>> THEN stdin ELSE Tail(stdin)
    /\ IF CellOk
       THEN /\ mem' = [mem EXCEPT ![mem_cursor + 1] =
                            IF stdin = <<>> THEN 0 ELSE Head(stdin)]
            /\ Advance(program_cursor)
       ELSE /\ Die("index out of bounds", 0)
            /\ UNCHANGED mem
    /\ Frame_Env
    /\ UNCHANGED <<tokens, mem_cursor, jmp_table, stderr>>

StepInput ==
    /\ Dispatch("Input")
    /\ StdoutFlush
    /\ IF stdin = <<>>
       THEN /\ Die("Couldn't fetch user input: failed on , at pos", Tok.pos)
            /\ UNCHANGED <<stdin, mem>>
       ELSE /\ stdin' = Tail(stdin)
            /\ IF CellOk
               THEN /\ mem' = [mem EXCEPT ![mem_cursor + 1] = Head(stdin)]
                    /\ Advance(program_cursor)
               ELSE /\ Die("index out of bounds", 0)
                    /\ UNCHANGED mem
    /\ Frame_Env
    /\ UNCHANGED <<tokens, mem_cursor, jmp_table, stderr>>

StepMoveRight ==
    /\ Dispatch("MoveRight")
    /\ IF mem_cursor = -1 /\ build = "debug"
       THEN /\ Die("attempt to add with overflow", 0)
            /\ UNCHANGED <<mem_cursor, mem>>
       ELSE /\ mem_cursor' = mem_cursor + 1
            /\ IF UsizeGe(mem_cursor + 1, Len(mem))
               THEN Len(mem) < MaxTape /\ mem' = Append(mem, 0)
               ELSE UNCHANGED mem
            /\ Advance(program_cursor)
    /\ Frame_Env
    /\ UNCHANGED <<stdin, tokens, jmp_table, stdout_buf, out, stderr>>

StepMoveLeft ==
    /\ Dispatch("MoveLeft")
    /\ IF mem_cursor = 0
       THEN /\ Len(mem) < MaxTape
            /\ mem' = <<0>> \o mem
            /\ IF build = "debug"
               THEN /\ Die("attempt to subtract with overflow", 0)
                    /\ UNCHANGED mem_cursor
               ELSE /\ mem_cursor' = -1
                    /\ Advance(program_cursor)
       ELSE /\ mem_cursor' = mem_cursor - 1
            /\ UNCHANGED mem
            /\ Advance(program_cursor)
    /\ Frame_Env
    /\ UNCHANGED <<stdin, tokens, jmp_table, stdout_buf, out, stderr>>

StepIncrement ==
    /\ Dispatch("Increment")
    /\ IF CellOk
       THEN /\ mem' = [mem EXCEPT ![mem_cursor + 1] = WrappingAdd(Cell)]
            /\ Advance(program_cursor)
       ELSE /\ Die("index out of bounds", 0)
            /\ UNCHANGED mem
    /\ Frame_Env
    /\ UNCHANGED <<stdin, tokens, mem_cursor, jmp_table, stdout_buf, out, stderr>>

StepDecrement ==
    /\ Dispatch("Decrement")
    /\ IF CellOk
       THEN /\ mem' = [mem EXCEPT ![mem_cursor + 1] = WrappingSub(Cell)]
            /\ Advance(program_cursor)
       ELSE /\ Die("index out of bounds", 0)
            /\ UNCHANGED mem
    /\ Frame_Env
    /\ UNCHANGED <<stdin, tokens, mem_cursor, jmp_table, stdout_buf, out, stderr>>

Jump_LandsOnBracket ==
    IF program_cursor \in DOMAIN jmp_table
    THEN program_cursor' = jmp_table[program_cursor] /\ UNCHANGED <<status, panic>>
    ELSE Die("called Option::unwrap() on a None value", 0)

(* Lines 131-132 and 137-138: the lookup, unwrapped. *)
Jump ==
    IF program_cursor \in DOMAIN jmp_table
    THEN Advance(jmp_table[program_cursor])
    ELSE Die("called Option::unwrap() on a None value", 0)

StepJmp_JumpOnNonZero ==
    /\ Dispatch("Jmp")
    /\ IF ~CellOk THEN Die("index out of bounds", 0)
       ELSE IF Cell # 0 THEN Jump
       ELSE Advance(program_cursor)
    /\ Frame_Env
    /\ UNCHANGED <<stdin, tokens, mem_cursor, mem, jmp_table, stdout_buf, out, stderr>>

StepJmp ==
    /\ Dispatch("Jmp")
    /\ IF ~CellOk THEN Die("index out of bounds", 0)
       ELSE IF Cell = 0 THEN Jump
       ELSE Advance(program_cursor)
    /\ Frame_Env
    /\ UNCHANGED <<stdin, tokens, mem_cursor, mem, jmp_table, stdout_buf, out, stderr>>

StepPmj_JumpOnZero ==
    /\ Dispatch("Pmj")
    /\ IF ~CellOk THEN Die("index out of bounds", 0)
       ELSE IF Cell = 0 THEN Jump
       ELSE Advance(program_cursor)
    /\ Frame_Env
    /\ UNCHANGED <<stdin, tokens, mem_cursor, mem, jmp_table, stdout_buf, out, stderr>>

StepPmj ==
    /\ Dispatch("Pmj")
    /\ IF ~CellOk THEN Die("index out of bounds", 0)
       ELSE IF Cell # 0 THEN Jump
       ELSE Advance(program_cursor)
    /\ Frame_Env
    /\ UNCHANGED <<stdin, tokens, mem_cursor, mem, jmp_table, stdout_buf, out, stderr>>

(* tokens.get(program_cursor) is None: break, interpret and main return, and *)
(* the runtime flushes standard output as the process exits.                 *)
Halt ==
    /\ status = "running"
    /\ program_cursor >= Len(tokens)
    /\ status' = "done"
    /\ StdoutFlush
    /\ Frame_Interp /\ Frame_Env
    /\ UNCHANGED <<stdin, panic, stderr>>

Next ==
    \/ MainRepl
    \/ MainRun
    \/ MainTooMany
    \/ LoadJumpTable
    \/ StepPrint
    \/ StepInput
    \/ StepMoveRight
    \/ StepMoveLeft
    \/ StepIncrement
    \/ StepDecrement
    \/ StepJmp
    \/ StepPmj
    \/ Halt

Spec == Init /\ [][Next]_vars

(* The exit status of the process: main returned, or the main thread       *)
(* panicked; "none" while it runs.                                         *)
ExitCode ==
    CASE status = "done" -> 0
      [] status = "panicked" -> 101
      [] OTHER -> -1

----------------------------------------------------------------------------
(* Vocabulary of the properties. *)

(* The interpreter passed load_jump_table and runs, or ran to the end. *)
Executing == alen = 2 /\ status \in {"running", "done"}
InputFailed == "Couldn't fetch user input: failed on , at pos"

(* Opens minus closes among the first k tokens. *)
Depth(toks, k) ==
    Cardinality({i \in 1..k : toks[i].kind = "Jmp"})
      - Cardinality({i \in 1..k : toks[i].kind = "Pmj"})

(* The scan meets a loop-close while no loop-open is pending. *)
HasUnmatchedClose(toks) == \E k \in 1..Len(toks) : Depth(toks, k) < 0

(* The scan ends with a loop-open still pending. *)
HasPendingOpen(toks) == ~HasUnmatchedClose(toks) /\ Depth(toks, Len(toks)) > 0

AllOfKind(toks, kind) == toks # <<>> /\ \A i \in 1..Len(toks) : toks[i].kind = kind
Zeros(n) == [i \in 1..n |-> 0]

KindOfChar ==
    [c \in Operators |->
        CASE c = "<" -> "MoveLeft"  [] c = ">" -> "MoveRight"
          [] c = "+" -> "Increment" [] c = "-" -> "Decrement"
          [] c = "." -> "Print"     [] c = "," -> "Input"
          [] c = "[" -> "Jmp"       [] c = "]" -> "Pmj"]

IsOperator(c) == c \in Operators

(* A bracket step that takes its jump: a loop-open on a zero cell, or a    *)
(* loop-close on a non-zero cell, with an entry in the jump table.          *)
Jumps(kind) ==
    /\ Dispatch(kind)
    /\ CellOk
    /\ IF kind = "Jmp" THEN Cell = 0 ELSE Cell # 0
    /\ program_cursor \in DOMAIN jmp_table

----------------------------------------------------------------------------
(* C1: a move-left step at tape cursor 0 never fails, inserts one zero cell *)
(* at the front and leaves the cursor at 0; so a program of n >= 1          *)
(* move-left tokens never fails, keeps the cursor at 0 and, after k of its  *)
(* steps, has a tape of k + 1 zero cells.                                   *)
C1_MoveLeftAtZeroGrows ==
    /\ [][(Dispatch("MoveLeft") /\ mem_cursor = 0)
            => /\ status' = "running"
               /\ mem' = <<0>> \o mem
               /\ mem_cursor' = 0]_vars
    /\ [](AllOfKind(tokens, "MoveLeft")
            => /\ status # "panicked"
               /\ Executing => mem_cursor = 0 /\ mem = Zeros(program_cursor + 1))

(* C2: while a program that passed jump-table construction executes, the    *)
(* tape cursor is a valid index into the tape.                              *)
C2_CursorInBounds ==
    Executing => 0 <= mem_cursor /\ mem_cursor < Len(mem)

(* C3: a token sequence whose scan ends with a loop-open still pending is   *)
(* rejected by jump-table construction: it never comes to execute.          *)
C3_PendingOpenRejected ==
    HasPendingOpen(tokens) => ~Executing

(* C4: a token sequence whose scan meets a loop-close with no loop-open     *)
(* pending never comes to execute; construction panics before any token is  *)
(* executed and before any output or tape change.                           *)
C4_UnmatchedCloseRejected ==
    HasUnmatchedClose(tokens)
      => /\ status \in {"constructed", "panicked"}
         /\ status = "panicked"
              => /\ panic.kind = "unreachable"
                 /\ program_cursor = 0
                 /\ mem = <<0>> /\ mem_cursor = 0
                 /\ out = <<>> /\ stdout_buf = <<>>

C4_Witness ==
    /\ status = "panicked"
    /\ source = <<"]", "[">>
    /\ panic.kind = "unreachable"

(* C5 (as stated): a loop-open executed on a zero cell is followed by the  *)
(* dispatch of its matching loop-close itself, and a loop-close executed on *)
(* a non-zero cell by the dispatch of its matching loop-open itself.        *)
C5_JumpLandsOnBracket ==
    [][(Jumps("Jmp") \/ Jumps("Pmj"))
         => program_cursor' = jmp_table[program_cursor]]_vars

(* C5 (amended): a loop-open executed on a zero cell leaves the program     *)
(* cursor one past its matching loop-close, and a loop-close executed on a  *)
(* non-zero cell leaves it one past its matching loop-open: the next token  *)
(* dispatched, if any, is the one after the matching bracket, which is not  *)
(* itself evaluated.                                                        *)
C5_JumpLandsPastBracket ==
    [][(Jumps("Jmp") \/ Jumps("Pmj"))
         => /\ program_cursor' = jmp_table[program_cursor] + 1
            /\ status' = "running"
            /\ tokens[jmp_table[program_cursor] + 1].kind
                 = (IF Tok.kind = "Jmp" THEN "Pmj" ELSE "Jmp")]_vars

C5_Witness ==
    /\ source = <<"[", "+", "]">>
    /\ status = "running"
    /\ program_cursor = 3
    /\ mem = <<0>>

(* C6: every print step appends exactly one byte, the current cell's value, *)
(* to the bytes written to standard output, for every cell value 0..255.    *)
C6_PrintOneRawByte ==
    [][(Dispatch("Print") /\ CellOk)
         => out' \o stdout_buf' = Append(out \o stdout_buf, Cell)]_vars

(* C7: an increment step sets the current cell to (v + 1) mod 256 and a     *)
(* decrement step to (v - 1) mod 256, without failing, and changes no other *)
(* cell, nor the tape length, nor the tape cursor; 256 increments, or 256   *)
(* decrements, of any cell value return it, and a decrement undoes an       *)
(* increment.                                                               *)
Apply2(F(_), v) == F(F(v))
Apply4(F(_), v) == Apply2(F, Apply2(F, v))
Apply16(F(_), v) == Apply4(F, Apply4(F, Apply4(F, Apply4(F, v))))
Add16 == [v \in 0..255 |-> Apply16(WrappingAdd, v)]
Sub16 == [v \in 0..255 |-> Apply16(WrappingSub, v)]
Apply256(f, v) == Apply16(LAMBDA x : f[x], v)

CellArithmeticWraps ==
    \A v \in 0..255 :
        /\ Apply256(Add16, v) = v
        /\ Apply256(Sub16, v) = v
        /\ WrappingSub(WrappingAdd(v)) = v
        /\ WrappingAdd(WrappingSub(v)) = v

OnlyCellBecomes(v) ==
    /\ status' = "running"
    /\ mem_cursor' = mem_cursor
    /\ Len(mem') = Len(mem)
    /\ \A i \in 1..Len(mem) : mem'[i] = (IF i = mem_cursor + 1 THEN v ELSE mem[i])

C7_IncDecWrap ==
    [][/\ (Dispatch("Increment") /\ CellOk)
            => OnlyCellBecomes(IF Cell = 255 THEN 0 ELSE Cell + 1)
       /\ (Dispatch("Decrement") /\ CellOk)
            => OnlyCellBecomes(IF Cell = 0 THEN 255 ELSE Cell - 1)
       /\ CellArithmeticWraps]_vars

C7_Witness ==
    /\ source = <<"+", "[", "+", "]">>
    /\ status = "done"
    /\ program_cursor = 4
    /\ mem = <<0>>

(* C8: after a successful jump-table construction the table is symmetric:   *)
(* the value of every key is a key whose value is the first key, and of the *)
(* two one indexes a loop-open token and the other a loop-close token.      *)
C8_TableSymmetric ==
    Executing =>
      \A k \in DOMAIN jmp_table :
          /\ jmp_table[k] \in DOMAIN jmp_table
          /\ jmp_table[jmp_table[k]] = k
          /\ k \in 0..(Len(tokens) - 1)
          /\ {tokens[k + 1].kind, tokens[jmp_table[k] + 1].kind} = {"Jmp", "Pmj"}

C8_Witness ==
    /\ Executing
    /\ Cardinality(DOMAIN jmp_table) = 4
    /\ jmp_table[1] = 5
    /\ jmp_table[2] = 4

(* C9: lexing never fails, and the token sequence has one token for each    *)
(* operator character of the source, in order and of that character's kind. *)
C9_LexTotal ==
    (alen = 2 /\ status # "start") =>
      LET ops == SelectSeq(source, IsOperator)
      IN  /\ Len(tokens) = Len(ops)
          /\ \A i \in 1..Len(ops) : tokens[i].kind = KindOfChar[ops[i]]
          /\ status = "constructed" => panic = NoPanic

C9_Witness ==
    /\ status = "constructed"
    /\ source = <<"x", ",", "x", "]">>
    /\ Len(tokens) = 2

(* C10: an input step taken at end of stream ends the run in a panic that   *)
(* names the position of that input token, the "," of the source; the cell  *)
(* is not overwritten, nothing is left to print, and no step follows.       *)
C10_InputEofFatal ==
    /\ [][(Dispatch("Input") /\ stdin = <<>>)
            => /\ status' = "panicked"
               /\ panic' = Panic(InputFailed, Tok.pos)
               /\ source[panic'.pos] = ","
               /\ mem' = mem /\ mem_cursor' = mem_cursor
               /\ program_cursor' = program_cursor
               /\ out' = out \o stdout_buf /\ stdout_buf' = <<>>]_vars
    /\ [][status = "panicked" => UNCHANGED vars]_vars

C10_Witness ==
    /\ status = "panicked"
    /\ panic = Panic(InputFailed, 4)
    /\ source = <<"+", ".", "x", ",">>
    /\ out = <<1>>
    /\ mem = <<1>>

(* C11: at every input step, all bytes written by earlier print steps have *)
(* reached the output stream before the byte is read: the step leaves the   *)
(* stdout buffer empty and the stream holding everything written so far.    *)
C11_FlushedBeforeRead ==
    [][Dispatch("Input")
         => /\ stdout_buf' = <<>>
            /\ out' = Written
            /\ Len(out') = Len(out) + Len(stdout_buf)]_vars

C11_Witness ==
    /\ source = <<"+", ".", ",">>
    /\ status = "running"
    /\ program_cursor = 3
    /\ out = <<1>>
    /\ stdout_buf = <<>>

(* C12: the program +[] never terminates and never fails: once running its *)
(* program cursor stays below the token count, after the increment the cell *)
(* is 1 for ever, and the loop-close step stays enabled.                    *)
C12_PlusLoopForever ==
    (alen = 2 /\ source = <<"+", "[", "]">>)
      => /\ status \in {"start", "constructed", "running"}
         /\ status = "running"
              => /\ program_cursor < Len(tokens)
                 /\ mem_cursor = 0
                 /\ mem = (IF program_cursor = 0 THEN <<0>> ELSE <<1>>)
                 /\ ENABLED Next

C12_Witness ==
    /\ source = <<"+", "[", "]">>
    /\ status = "running"
    /\ program_cursor = 2
    /\ mem = <<1>>
    /\ jmp_table[2] = 1

(* C13: an input step that finds a byte b and stores it consumes exactly    *)
(* that byte and sets the current cell to b, leaving every other cell, the  *)
(* tape length and the tape cursor unchanged; and the program ,. run on a   *)
(* stream that starts with b ends normally, with the program cursor at the  *)
(* token count, having printed exactly the byte b.                          *)
C13_InputThenPrintEchoes ==
    /\ [][(Dispatch("Input") /\ stdin # <<>> /\ CellOk)
            => /\ stdin' = Tail(stdin)
               /\ OnlyCellBecomes(Head(stdin))]_vars
    /\ []((alen = 2 /\ source = <<",", ".">>)
            => /\ (status = "panicked" => panic.kind = InputFailed)
               /\ (status = "done"
                     => /\ program_cursor = Len(tokens)
                        /\ out = <<mem[1]>>))

(* C14: a source with no operator character runs to normal completion       *)
(* without executing a step: no token, no output, no input read, the tape    *)
(* still [0], tape cursor 0 and program cursor 0.                            *)
C14_NoOperatorNoEffect ==
    (alen = 2 /\ status # "start" /\ SelectSeq(source, IsOperator) = <<>>)
      => /\ status \in {"constructed", "running", "done"}
         /\ tokens = <<>>
         /\ mem = <<0>> /\ mem_cursor = 0 /\ program_cursor = 0
         /\ out = <<>> /\ stdout_buf = <<>> /\ stderr = <<>>
         /\ stdin = <<>>
         /\ panic = NoPanic
         /\ status = "running" => ENABLED Halt
         /\ status = "done" => ExitCode = 0

C14_Witness ==
    /\ source = <<"x", "x">>
    /\ status = "done"
    /\ mem = <<0>>
    /\ program_cursor = 0

(* C15: started with more than one command-line argument the program prints *)
(* a usage error, runs no interpreter step and exits with a non-zero        *)
(* status; every panic exits non-zero and every normal completion zero.     *)
C15_ExitStatus ==
    /\ (alen > 2 /\ status # "start")
         => /\ tokens = <<>> /\ mem = <<>>
            /\ stderr # <<>>
            /\ ExitCode # 0
    /\ status = "panicked" => ExitCode # 0
    /\ (alen = 2 /\ status = "done") => ExitCode = 0

(* C16: loops run while the current cell is non-zero.  A bracket step that  *)
(* moves the program cursor just past the loop (a loop-open jumping, a      *)
(* loop-close falling through) is taken on a zero cell; one that moves it   *)
(* to the first token of the body (a loop-open falling through, a           *)
(* loop-close jumping) is taken on a non-zero cell; a bracket step changes  *)
(* neither tape nor output; and the cursor it leaves is the one an          *)
(* interpreter that goes back to the loop-open and tests the cell there     *)
(* would leave.                                                             *)
BracketStep ==
    /\ status = "running"
    /\ program_cursor < Len(tokens)
    /\ Tok.kind \in {"Jmp", "Pmj"}
    /\ status' = "running"

Keyed == program_cursor \in DOMAIN jmp_table

LeavesLoop ==
    \/ Tok.kind = "Jmp" /\ Keyed /\ program_cursor' = jmp_table[program_cursor] + 1
    \/ Tok.kind = "Pmj" /\ program_cursor' = program_cursor + 1

EntersBody ==
    \/ Tok.kind = "Jmp" /\ program_cursor' = program_cursor + 1
    \/ Tok.kind = "Pmj" /\ Keyed /\ program_cursor' = jmp_table[program_cursor] + 1

(* The reference: a loop-open tests the cell; a loop-close goes back to its *)
(* loop-open, which tests the cell again.                                   *)
RetestAtOpen(open) ==
    IF Cell = 0 THEN jmp_table[open] + 1 ELSE open + 1

ReferenceCursor ==
    IF Tok.kind = "Jmp" THEN RetestAtOpen(program_cursor)
    ELSE RetestAtOpen(jmp_table[program_cursor])

C16_WhileNonZero ==
    [][BracketStep
         => /\ LeavesLoop => Cell = 0
            /\ EntersBody => Cell # 0
            /\ LeavesLoop \/ EntersBody
            /\ Keyed => program_cursor' = ReferenceCursor
            /\ UNCHANGED <<mem, mem_cursor, out, stdout_buf, stdin>>]_vars

C16_Witness ==
    /\ source = <<"+", "[", "-", "]">>
    /\ status = "done"
    /\ program_cursor = 4
    /\ mem = <<0>>

(* C17: once load_jump_table has returned, every loop-open and loop-close   *)
(* index is a key of the jump table, and the only panic that can end a run  *)
(* that has started executing is the failed input read.                     *)
C17_EveryBracketKeyed ==
    /\ Executing
         => \A i \in 1..Len(tokens) :
               tokens[i].kind \in {"Jmp", "Pmj"} => (i - 1) \in DOMAIN jmp_table
    /\ status = "panicked"
         => panic.kind \in {"unreachable", "No matching ]", InputFailed}

(* C18: after a successful construction every entry pairs a loop-open at i  *)
(* with a loop-close at j > i at the same nesting depth: the tokens between *)
(* them hold as many loop-opens as loop-closes and no prefix of them holds  *)
(* more loop-closes than loop-opens; the table has twice as many keys as    *)
(* there are loop-close tokens, and every key is a bracket index.           *)
Min(a, b) == IF a < b THEN a ELSE b
Max(a, b) == IF a < b THEN b ELSE a

PairedAtSameDepth(toks, i, j) ==
    /\ i < j
    /\ toks[i + 1].kind = "Jmp"
    /\ toks[j + 1].kind = "Pmj"
    /\ \A m \in (i + 1)..j : Depth(toks, m) - Depth(toks, i + 1) >= 0
    /\ Depth(toks, j) = Depth(toks, i + 1)

C18_PairsAtSameDepth ==
    Executing
      => /\ \A k \in DOMAIN jmp_table :
               /\ k \in 0..(Len(tokens) - 1)
               /\ jmp_table[k] \in 0..(Len(tokens) - 1)
               /\ PairedAtSameDepth(tokens, Min(k, jmp_table[k]), Max(k, jmp_table[k]))
         /\ Cardinality(DOMAIN jmp_table)
              = 2 * Cardinality({i \in 1..Len(tokens) : tokens[i].kind = "Pmj"})

C18_Witness ==
    /\ Executing
    /\ source = <<"[", "[", "]", "]">>
    /\ jmp_table[0] = 3
    /\ jmp_table[2] = 1

(* C19: the tape never shrinks and grows only by one zero cell appended at  *)
(* a move-right step taken on the last cell, the cursor becoming the new    *)
(* last index, or by one zero cell inserted in front at a move-left step    *)
(* taken at cursor 0; every other step keeps the tape length, and keeps     *)
(* every cell value unless it is an increment, decrement or input step; no  *)
(* execution step changes the jump table or the tokens.                     *)
GrowsRight == Dispatch("MoveRight") /\ mem_cursor = Len(mem) - 1
GrowsLeft == Dispatch("MoveLeft") /\ mem_cursor = 0
WritesCell == Tok.kind \in {"Increment", "Decrement", "Input"}

C19_TapeGrowsOnlyAtEnds ==
    [][status = "running"
         => /\ Len(mem') >= Len(mem)
            /\ GrowsRight => mem' = Append(mem, 0) /\ mem_cursor' = Len(mem') - 1
            /\ GrowsLeft => mem' = <<0>> \o mem
            /\ ~(GrowsRight \/ GrowsLeft)
                 => /\ Len(mem') = Len(mem)
                    /\ (program_cursor < Len(tokens) /\ WritesCell) \/ mem' = mem
            /\ jmp_table' = jmp_table
            /\ tokens' = tokens]_vars

(* C20: every token's position is the 1-based offset of its character in    *)
(* the source, counting every character; positions increase strictly along  *)
(* the tokens; and a failed input read reports the offset of its ",".       *)
C20_PositionsAreOffsets ==
    (alen = 2 /\ status # "start")
      => /\ \A i \in 1..Len(tokens) :
               /\ tokens[i].pos \in 1..Len(source)
               /\ IsOperator(source[tokens[i].pos])
               /\ KindOfChar[source[tokens[i].pos]] = tokens[i].kind
               /\ Cardinality({j \in 1..tokens[i].pos : IsOperator(source[j])}) = i
         /\ \A i \in 1..(Len(tokens) - 1) : tokens[i].pos < tokens[i + 1].pos
         /\ panic.kind = InputFailed
              => /\ panic.pos = tokens[program_cursor + 1].pos
                 /\ source[panic.pos] = ","

C20_Witness ==
    /\ status = "panicked"
    /\ source = <<"x", "+", ",">>
    /\ panic = Panic(InputFailed, 3)
    /\ tokens[2].pos = 3

====
